---- MODULE Spec2Model ----
(***************************************************************************)
(* A model of github.com/lestrrat-go/runcmd (runcmd.go): the rcCtx option  *)
(* context with its With* setters, the typed lookups getWriter, getReader, *)
(* getString and getStringSlice, Create, and Run.                          *)
(*                                                                         *)
(* Go values are modelled by what the code can observe of them:            *)
(*   - an interface value (interface{}, io.Writer, io.Reader) is a record  *)
(*     [typ, isNil, elems]: its dynamic type, whether the value inside is  *)
(*     nil, and its payload (the address of a stream object, the text of a *)
(*     string, the elements of a slice).  The nil interface has typ        *)
(*     "<nil>".                                                            *)
(*   - a slice is a record [isNil, elems]: Go tells a nil slice from an    *)
(*     empty one.                                                          *)
(*   - a context.Context is a record [base, chain]: the overlay nodes      *)
(*     context.WithValue has added, oldest first, over a base context.     *)
(***************************************************************************)
EXTENDS Naturals, Sequences, FiniteSets

VARIABLES
    heap,       \* the rcCtx objects: heap[r].ctx is the embedded context.Context
    ref,        \* the caller's variables: the rcCtx each points to (0: nil)
    opts,       \* history: per rcCtx and option kind, the argument of the latest setter call
    nwith,      \* history: number of With* calls made
    last        \* the latest call of the API and what it returned

vars == <<heap, ref, opts, nwith, last>>

--------------------------------------------------------------------------
(* Bounds *)

\* number of With* calls made in one behaviour
MaxWith == 2

--------------------------------------------------------------------------
(* Go values *)

Iface(t, n, e) == [typ |-> t, isNil |-> n, elems |-> e]

NilIface == Iface("<nil>", TRUE, <<>>)

Slice(e) == [isNil |-> FALSE, elems |-> e]

NilSlice == [isNil |-> TRUE, elems |-> <<>>]

\* a slice boxed in an interface{}: a nil slice gives a non-nil interface
BoxSlice(t, s) == Iface(t, s.isNil, s.elems)

BoxString(s) == Iface("string", FALSE, <<s>>)

\* a pointer to a stream object, by its address
Ptr(t, a) == Iface(t, FALSE, <<a>>)

\* the dynamic types that satisfy io.Writer / io.Reader
WriterTypes == {"*bytes.Buffer", "*os.File", "*bufio.Writer"}

ReaderTypes == {"*bytes.Buffer", "*os.File"}

\* the calling process's own standard streams
osStdin == Ptr("*os.File", "os.Stdin")

osStdout == Ptr("*os.File", "os.Stdout")

osStderr == Ptr("*os.File", "os.Stderr")

--------------------------------------------------------------------------
(* The option keys: one private marker type each *)

identEnv == "identEnv"

identDir == "identDir"

identStdout == "identStdout"

identStderr == "identStderr"

identStdin == "identStdin"

identExtraFiles == "identExtraFiles"

Keys == {identEnv, identDir, identStdout, identStderr, identStdin, identExtraFiles}

--------------------------------------------------------------------------
(* Inputs *)

\* base contexts handed to Context() or straight to Create(): the empty
\* context, and two context.Context implementations whose own Value method
\* answers every key, one with an int and one with a *bufio.Writer.  The key
\* types are unexported, so only such a context (or code of the package) can
\* put a value of another type under an option key.
Bases == {"background", "intAll", "writerAll"}

\* arguments of WithStdout / WithStderr: stream objects, and the nil io.Writer
WriterArgs == {Ptr("*bytes.Buffer", "bufA"), Ptr("*bytes.Buffer", "bufB"), NilIface}

\* arguments of WithStdin
ReaderArgs == {Ptr("*bytes.Buffer", "bufC"), NilIface}

\* arguments of WithDir
DirArgs == {"", "/tmp/runcmd-test"}

\* arguments of WithEnv: WithEnv() passes a nil slice, WithEnv([]string{}...)
\* an empty one
EnvArgs == {NilSlice, Slice(<<>>), Slice(<<"FOO=bar", "BAZ=quux">>)}

\* arguments of WithExtraFiles
FileArgs == {Slice(<<"f1", "f2">>)}

Paths == {"ls"}

VarNames == {"c", "d"}

\* the address of the rcCtx the program constructs
Refs == {1}

--------------------------------------------------------------------------
(* context.Context *)

\* what a base context's Value method answers for an option key
BaseValue(base, key) ==
    CASE base = "intAll" -> Iface("int", FALSE, <<"42">>)
      [] base = "writerAll" -> Ptr("*bufio.Writer", "w")
      [] OTHER -> NilIface

EmptyCtx(base) == [base |-> base, chain |-> <<>>]

\* context.WithValue(parent, key, val): one more overlay node over parent
WithValue(parent, key, val) ==
    [parent EXCEPT !.chain = Append(@, [key |-> key, val |-> val])]

RECURSIVE lookup(_, _, _)
lookup(chain, base, key) ==
    IF chain = <<>>
    THEN BaseValue(base, key)
    ELSE LET n == chain[Len(chain)]
         IN IF n.key = key THEN n.val ELSE lookup(SubSeq(chain, 1, Len(chain) - 1), base, key)

\* ctx.Value(key): the most recent overlay node with that key, else the base's answer
Value(ctx, key) == lookup(ctx.chain, ctx.base, key)

--------------------------------------------------------------------------
(* Typed lookups.  Each takes the current *dst and returns the new *dst and
   the error; an error is the token list of its message, nil is <<>>. *)

NoErr == <<>>

getWriter(ctx, dst, key, name) ==
    LET tmp == Value(ctx, key)
    IN IF tmp = NilIface
       THEN [dst |-> dst, err |-> NoErr]
       ELSE IF tmp.typ \notin WriterTypes
            THEN [dst |-> dst, err |-> <<"expected io.Writer for", name, "got", tmp.typ>>]
            ELSE [dst |-> tmp, err |-> NoErr]

getReader(ctx, dst, key, name) ==
    LET tmp == Value(ctx, key)
    IN IF tmp = NilIface
       THEN [dst |-> dst, err |-> NoErr]
       ELSE IF tmp.typ \notin ReaderTypes
            THEN [dst |-> dst, err |-> <<"expected io.Reader for", name, "got", tmp.typ>>]
            ELSE [dst |-> tmp, err |-> NoErr]

\* getString without its type check: a value of another type is passed over
getStringLenient(ctx, dst, key, name) ==
    LET tmp == Value(ctx, key)
    IN IF tmp = NilIface \/ tmp.typ # "string"
       THEN [dst |-> dst, err |-> NoErr]
       ELSE [dst |-> tmp.elems[1], err |-> NoErr]

getString(ctx, dst, key, name) ==
    LET tmp == Value(ctx, key)
    IN IF tmp = NilIface
       THEN [dst |-> dst, err |-> NoErr]
       ELSE IF tmp.typ # "string"
            THEN [dst |-> dst, err |-> <<"expected string for", name, "got", tmp.typ>>]
            ELSE [dst |-> tmp.elems[1], err |-> NoErr]

getStringSlice(ctx, dst, key, name) ==
    LET tmp == Value(ctx, key)
    IN IF tmp = NilIface
       THEN [dst |-> dst, err |-> NoErr]
       ELSE IF tmp.typ # "[]string"
            THEN [dst |-> dst, err |-> <<"expected string for", name, "got", tmp.typ>>]
            ELSE [dst |-> [isNil |-> tmp.isNil, elems |-> tmp.elems], err |-> NoErr]

--------------------------------------------------------------------------
(* Create *)

\* the nil *exec.Cmd
NilCmd ==
    [id |-> 0, Path |-> "", bound |-> FALSE, Stdout |-> NilIface, Stderr |-> NilIface,
     Stdin |-> NilIface, Dir |-> "", Env |-> NilSlice, ExtraFiles |-> NilSlice]

\* exec.CommandContext(ctx, path, args...): a fresh handle bound to ctx, every
\* other field at its zero value
CommandContext(id, path) == [NilCmd EXCEPT !.id = id, !.Path = path, !.bound = TRUE]

\* fmt.Errorf(`failed to assign <name>: %w`, err)
failedToAssign(name, err) == <<"failed to assign", name>> \o err

\* assign testing len(environ) > 0 where the code tests environ != nil
assignNonEmptyEnv(cmd, stdout, stderr, stdin, dir, environ) ==
    LET c1 == IF stdout # NilIface THEN [cmd EXCEPT !.Stdout = stdout] ELSE cmd
        c2 == IF stderr # NilIface THEN [c1 EXCEPT !.Stderr = stderr] ELSE c1
        c3 == IF stdin # NilIface THEN [c2 EXCEPT !.Stdin = stdin] ELSE c2
        c4 == IF dir # "" THEN [c3 EXCEPT !.Dir = dir] ELSE c3
        c5 == IF Len(environ.elems) > 0 THEN [c4 EXCEPT !.Env = environ] ELSE c4
    IN c5

\* the fields Create assigns on the new handle
assign(cmd, stdout, stderr, stdin, dir, environ) ==
    LET c1 == IF stdout # NilIface THEN [cmd EXCEPT !.Stdout = stdout] ELSE cmd
        c2 == IF stderr # NilIface THEN [c1 EXCEPT !.Stderr = stderr] ELSE c1
        c3 == IF stdin # NilIface THEN [c2 EXCEPT !.Stdin = stdin] ELSE c2
        c4 == IF dir # "" THEN [c3 EXCEPT !.Dir = dir] ELSE c3
        c5 == IF ~environ.isNil THEN [c4 EXCEPT !.Env = environ] ELSE c4
    IN c5

\* Create with stdin, stdout and stderr declared without the os.Std* initial values
CreateNoDefaults(ctx, path, id) ==
    LET o == getWriter(ctx, NilIface, identStdout, "Stdout")
        e == getWriter(ctx, NilIface, identStderr, "Stderr")
        i == getReader(ctx, NilIface, identStdin, "Stdin")
        d == getString(ctx, "", identDir, "Dir")
        v == getStringSlice(ctx, NilSlice, identEnv, "Env")
    IN CASE o.err # NoErr -> [cmd |-> NilCmd, err |-> failedToAssign("Stdout", o.err)]
         [] e.err # NoErr -> [cmd |-> NilCmd, err |-> failedToAssign("Stderr", e.err)]
         [] i.err # NoErr -> [cmd |-> NilCmd, err |-> failedToAssign("Stdin", i.err)]
         [] d.err # NoErr -> [cmd |-> NilCmd, err |-> failedToAssign("Dir", d.err)]
         [] v.err # NoErr -> [cmd |-> NilCmd, err |-> failedToAssign("Env", v.err)]
         [] OTHER ->
              [cmd |-> assign(CommandContext(id, path), o.dst, e.dst, i.dst, d.dst, v.dst),
               err |-> NoErr]

\* Create(ctx, path): the handle (NilCmd on failure) and the error; id is the
\* address of the handle allocated
Create(ctx, path, id) ==
    LET o == getWriter(ctx, osStdout, identStdout, "Stdout")
        e == getWriter(ctx, osStderr, identStderr, "Stderr")
        i == getReader(ctx, osStdin, identStdin, "Stdin")
        d == getString(ctx, "", identDir, "Dir")
        v == getStringSlice(ctx, NilSlice, identEnv, "Env")
    IN CASE o.err # NoErr -> [cmd |-> NilCmd, err |-> failedToAssign("Stdout", o.err)]
         [] e.err # NoErr -> [cmd |-> NilCmd, err |-> failedToAssign("Stderr", e.err)]
         [] i.err # NoErr -> [cmd |-> NilCmd, err |-> failedToAssign("Stdin", i.err)]
         [] d.err # NoErr -> [cmd |-> NilCmd, err |-> failedToAssign("Dir", d.err)]
         [] v.err # NoErr -> [cmd |-> NilCmd, err |-> failedToAssign("Env", v.err)]
         [] OTHER ->
              [cmd |-> assign(CommandContext(id, path), o.dst, e.dst, i.dst, d.dst, v.dst),
               err |-> NoErr]

--------------------------------------------------------------------------
(* rcCtx: the methods take the heap and the receiver's address and return
   the new heap and the Ctx returned *)

\* runcmd.Context(ctx): &rcCtx{ctx}
Context(base) == [alloc |-> TRUE, ctx |-> EmptyCtx(base)]

WithExtraFiles(h, r, files) ==
    [heap |-> [h EXCEPT ![r].ctx = WithValue(@, identExtraFiles, BoxSlice("[]*os.File", files))],
     ret |-> r]

WithEnv(h, r, environ) ==
    [heap |-> [h EXCEPT ![r].ctx = WithValue(@, identEnv, BoxSlice("[]string", environ))],
     ret |-> r]

WithDir(h, r, s) ==
    [heap |-> [h EXCEPT ![r].ctx = WithValue(@, identDir, BoxString(s))], ret |-> r]

WithStdout(h, r, v) ==
    [heap |-> [h EXCEPT ![r].ctx = WithValue(@, identStdout, v)], ret |-> r]

\* WithStderr storing its value under the key of WithStdout
WithStderrAsStdout(h, r, v) ==
    [heap |-> [h EXCEPT ![r].ctx = WithValue(@, identStdout, v)], ret |-> r]

WithStderr(h, r, v) ==
    [heap |-> [h EXCEPT ![r].ctx = WithValue(@, identStderr, v)], ret |-> r]

WithStdin(h, r, v) ==
    [heap |-> [h EXCEPT ![r].ctx = WithValue(@, identStdin, v)], ret |-> r]

--------------------------------------------------------------------------
(* The caller's program.  It starts with c := runcmd.Context(base) and d
   nil, and then calls y := x.WithXXX(v), runcmd.Create(x, path),
   runcmd.Create(base, path) and runcmd.Run(x, path) in any order. *)

Unset == [isSet |-> FALSE, val |-> NilIface]

\* prev: the handle of the call before, when that was a successful Create on
\* the same context (the caller still holds it), else NilCmd
NoCall ==
    [op |-> "none", key |-> "", recv |-> 0, base |-> "background", ret |-> 0,
     cmd |-> NilCmd, err |-> NoErr, prev |-> NilCmd]

\* the address of a new *exec.Cmd: not that of the handle the caller still holds
NewCmd == IF last.cmd.id = 1 THEN 2 ELSE 1

\* the handle the caller holds from the call before, if that was a Create on
\* the context (recv, base)
Held(recv, base) ==
    IF last.op = "Create" /\ last.recv = recv /\ last.base = base THEN last.cmd ELSE NilCmd

\* what (*exec.Cmd).Run() may return: nil, or the error of a child that failed
\* to start or did not exit with status 0
RunErrors == {NoErr, <<"exit status 1">>}

Init ==
    /\ \E b \in Bases : heap = [r \in Refs |-> Context(b)]
    /\ ref = [x \in VarNames |-> IF x = "c" THEN 1 ELSE 0]
    /\ opts = [r \in Refs |-> [k \in Keys |-> Unset]]
    /\ nwith = 0
    /\ last = NoCall

\* y := x.WithXXX(v), where res is what the method returned and boxed is v as
\* the caller passed it
setter(x, y, res, key, boxed) ==
    /\ nwith < MaxWith
    /\ ref' = [ref EXCEPT ![y] = res.ret]
    /\ heap' = res.heap
    /\ opts' = [opts EXCEPT ![ref[x]][key] = [isSet |-> TRUE, val |-> boxed]]
    /\ nwith' = nwith + 1
    /\ last' = [NoCall EXCEPT !.op = "With", !.key = key, !.recv = ref[x], !.ret = res.ret]

CallWithExtraFiles(x, y, files) ==
    /\ ref[x] # 0
    /\ setter(x, y, WithExtraFiles(heap, ref[x], files), identExtraFiles,
              BoxSlice("[]*os.File", files))

CallWithEnv(x, y, environ) ==
    /\ ref[x] # 0
    /\ setter(x, y, WithEnv(heap, ref[x], environ), identEnv, BoxSlice("[]string", environ))

CallWithDir(x, y, s) ==
    /\ ref[x] # 0
    /\ setter(x, y, WithDir(heap, ref[x], s), identDir, BoxString(s))

CallWithStdout(x, y, v) ==
    /\ ref[x] # 0
    /\ setter(x, y, WithStdout(heap, ref[x], v), identStdout, v)

CallWithStderr(x, y, v) ==
    /\ ref[x] # 0
    /\ setter(x, y, WithStderr(heap, ref[x], v), identStderr, v)

CallWithStdin(x, y, v) ==
    /\ ref[x] # 0
    /\ setter(x, y, WithStdin(heap, ref[x], v), identStdin, v)

\* a Create that resets the rcCtx it was given to its base context
CallCreateConsuming(x, path) ==
    /\ ref[x] # 0
    /\ LET res == Create(heap[ref[x]].ctx, path, NewCmd)
           base == heap[ref[x]].ctx.base
       IN last' = [NoCall EXCEPT !.op = "Create", !.recv = ref[x], !.base = base,
                                 !.cmd = res.cmd, !.err = res.err,
                                 !.prev = Held(ref[x], base)]
    /\ heap' = [heap EXCEPT ![ref[x]].ctx = EmptyCtx(@.base)]
    /\ UNCHANGED <<ref, opts, nwith>>

\* cmd, err := runcmd.Create(x, path), x an rcCtx
CallCreate(x, path) ==
    /\ ref[x] # 0
    /\ LET res == Create(heap[ref[x]].ctx, path, NewCmd)
           base == heap[ref[x]].ctx.base
       IN last' = [NoCall EXCEPT !.op = "Create", !.recv = ref[x], !.base = base,
                                 !.cmd = res.cmd, !.err = res.err,
                                 !.prev = Held(ref[x], base)]
    /\ UNCHANGED <<heap, ref, opts, nwith>>

\* cmd, err := runcmd.Create(base, path), base a context that is no rcCtx
CallCreatePlain(base, path) ==
    /\ LET res == Create(EmptyCtx(base), path, NewCmd)
       IN last' = [NoCall EXCEPT !.op = "Create", !.base = base, !.cmd = res.cmd,
                                 !.err = res.err, !.prev = Held(0, base)]
    /\ UNCHANGED <<heap, ref, opts, nwith>>

\* fmt.Errorf(`failed to create *exec.Cmd: %w`, err)
failedToCreate(err) == <<"failed to create *exec.Cmd">> \o err

\* Run(ctx, path): the error returned, where runErr is what cmd.Run() returns
\* for the handle
Run(ctx, path, id, runErr) ==
    LET res == Create(ctx, path, id)
    IN IF res.err # NoErr THEN failedToCreate(res.err) ELSE runErr

\* err := runcmd.Run(x, path), x an rcCtx
CallRun(x, path, runErr) ==
    /\ ref[x] # 0
    /\ last' = [NoCall EXCEPT !.op = "Run", !.recv = ref[x], !.base = heap[ref[x]].ctx.base,
                              !.err = Run(heap[ref[x]].ctx, path, NewCmd, runErr)]
    /\ UNCHANGED <<heap, ref, opts, nwith>>

Next ==
    \/ \E x, y \in VarNames, f \in FileArgs : CallWithExtraFiles(x, y, f)
    \/ \E x, y \in VarNames, e \in EnvArgs : CallWithEnv(x, y, e)
    \/ \E x, y \in VarNames, s \in DirArgs : CallWithDir(x, y, s)
    \/ \E x, y \in VarNames, v \in WriterArgs : CallWithStdout(x, y, v)
    \/ \E x, y \in VarNames, v \in WriterArgs : CallWithStderr(x, y, v)
    \/ \E x, y \in VarNames, v \in ReaderArgs : CallWithStdin(x, y, v)
    \/ \E x \in VarNames, p \in Paths : CallCreate(x, p)
    \/ \E b \in Bases, p \in Paths : CallCreatePlain(b, p)
    \/ \E x \in VarNames, p \in Paths, e \in RunErrors : CallRun(x, p, e)

Spec == Init /\ [][Next]_vars

--------------------------------------------------------------------------
(* Vocabulary of the properties *)

\* the option kinds Create looks up, in the order it does
LookupOrder == <<identStdout, identStderr, identStdin, identDir, identEnv>>

Looked == {LookupOrder[n] : n \in 1..Len(LookupOrder)}

Streams == {identStdout, identStderr, identStdin}

OptionName(key) ==
    CASE key = identStdout -> "Stdout"
      [] key = identStderr -> "Stderr"
      [] key = identStdin -> "Stdin"
      [] key = identDir -> "Dir"
      [] key = identEnv -> "Env"
      [] OTHER -> "ExtraFiles"

\* the field of a handle that belongs to an option kind, as an interface value
HandleField(cmd, key) ==
    CASE key = identStdout -> cmd.Stdout
      [] key = identStderr -> cmd.Stderr
      [] key = identStdin -> cmd.Stdin
      [] key = identDir -> BoxString(cmd.Dir)
      [] key = identEnv -> BoxSlice("[]string", cmd.Env)
      [] OTHER -> BoxSlice("[]*os.File", cmd.ExtraFiles)

\* the field's value when the option is absent
Default(key) ==
    CASE key = identStdout -> osStdout
      [] key = identStderr -> osStderr
      [] key = identStdin -> osStdin
      [] key = identDir -> BoxString("")
      [] key = identEnv -> BoxSlice("[]string", NilSlice)
      [] OTHER -> BoxSlice("[]*os.File", NilSlice)

\* the type each looked-up option must have
WellTyped(key, v) ==
    CASE key \in {identStdout, identStderr} -> v.typ \in WriterTypes
      [] key = identStdin -> v.typ \in ReaderTypes
      [] key = identDir -> v.typ = "string"
      [] key = identEnv -> v.typ = "[]string"
      [] OTHER -> TRUE

\* a base context that carries nothing under the option keys
Plain(base) == \A k \in Keys : BaseValue(base, k) = NilIface

\* what the context of the latest call carries under a key, by the calls made:
\* the argument of the latest setter of that kind, else the base's own answer
Carried(key) ==
    IF last.recv # 0 /\ opts[last.recv][key].isSet
    THEN opts[last.recv][key].val
    ELSE BaseValue(last.base, key)

WasSet(key) == last.recv # 0 /\ opts[last.recv][key].isSet

Created == last.op = "Create"

Succeeded == last.err = NoErr /\ last.cmd.id # 0

SetValue(key) == opts[last.recv][key].val

--------------------------------------------------------------------------
(* Properties *)

\* C1, as stated: after Create on an rcCtx over a base that carries no
\* options, Create has succeeded and, for each of stdout, stderr, stdin, dir
\* and env, the handle's field equals the value last passed to that kind's
\* setter, whatever that value was.
C1_SetValueAlways ==
    (Created /\ last.recv # 0 /\ Plain(last.base)) =>
        /\ Succeeded
        /\ \A k \in Looked : WasSet(k) => HandleField(last.cmd, k) = SetValue(k)

\* C1, amended: the same for every value but the nil io.Writer / io.Reader;
\* a setter called with nil leaves the field at the process's standard stream.
C1_SetValueUnlessNil ==
    (Created /\ last.recv # 0 /\ Plain(last.base)) =>
        /\ Succeeded
        /\ \A k \in Looked :
             WasSet(k) =>
                HandleField(last.cmd, k) = IF SetValue(k) = NilIface THEN Default(k) ELSE SetValue(k)

C1_Witness ==
    /\ Created /\ last.recv # 0 /\ Plain(last.base) /\ Succeeded
    /\ \E k \in Streams :
         WasSet(k) /\ SetValue(k) # NilIface /\ HandleField(last.cmd, k) = SetValue(k)
    /\ \E k \in {identDir, identEnv} : WasSet(k)

\* C2: after a successful Create on an rcCtx, the handle's ExtraFiles is the
\* list last passed to WithExtraFiles, in the same order, and is empty when
\* WithExtraFiles was never called.
C2_ExtraFilesAttached ==
    (Created /\ last.recv # 0 /\ last.err = NoErr) =>
        /\ WasSet(identExtraFiles) =>
              HandleField(last.cmd, identExtraFiles) = SetValue(identExtraFiles)
        /\ ~WasSet(identExtraFiles) => last.cmd.ExtraFiles.elems = <<>>

\* C3: Create on a context with no options set (an rcCtx no setter was called
\* on, or a base context itself, the base carrying nothing under the option
\* keys) succeeds with Stdout, Stderr, Stdin the process's own streams, Dir
\* empty and Env nil.
C3_Defaults ==
    (Created /\ Plain(last.base) /\ \A k \in Keys : ~WasSet(k)) =>
        /\ Succeeded
        /\ last.cmd.Stdout = osStdout
        /\ last.cmd.Stderr = osStderr
        /\ last.cmd.Stdin = osStdin
        /\ last.cmd.Dir = ""
        /\ last.cmd.Env = NilSlice

C3_Witness ==
    /\ Created /\ last.recv # 0 /\ Plain(last.base) /\ \A k \in Keys : ~WasSet(k)
    /\ last.cmd.id # 0 /\ last.cmd.Stdin = osStdin

\* C4: after WithEnv with an empty non-nil list, a successful Create gives a
\* handle whose Env is the empty non-nil list; when WithEnv was never called
\* (and the base carries no environment) its Env is nil.
C4_EmptyEnvIsNotUnset ==
    (Created /\ last.err = NoErr) =>
        /\ (WasSet(identEnv) /\ SetValue(identEnv) = BoxSlice("[]string", Slice(<<>>))) =>
              (last.cmd.Env = Slice(<<>>) /\ ~last.cmd.Env.isNil)
        /\ (~WasSet(identEnv) /\ BaseValue(last.base, identEnv) = NilIface) =>
              (last.cmd.Env = NilSlice /\ last.cmd.Env.isNil)

C4_Witness ==
    /\ Created /\ last.err = NoErr /\ WasSet(identEnv)
    /\ SetValue(identEnv) = BoxSlice("[]string", Slice(<<>>))
    /\ ~last.cmd.Env.isNil /\ last.cmd.Env.elems = <<>>

\* the positions in LookupOrder of the options the context carries with a
\* value of another type than expected
Mistyped ==
    {n \in 1..Len(LookupOrder) :
        /\ Carried(LookupOrder[n]) # NilIface
        /\ ~WellTyped(LookupOrder[n], Carried(LookupOrder[n]))}

\* C5: when the context carries a value of the wrong type under a key Create
\* looks up, Create returns the nil handle and an error that names the first
\* such option in the order Stdout, Stderr, Stdin, Dir, Env; otherwise it
\* succeeds.
C5_FirstMistypedNamed ==
    Created =>
        /\ Mistyped # {} =>
              /\ last.cmd = NilCmd
              /\ last.err # NoErr
              /\ \E n \in Mistyped :
                   /\ \A m \in Mistyped : n <= m
                   /\ last.err[1] = "failed to assign"
                   /\ last.err[2] = OptionName(LookupOrder[n])
                   /\ last.err[4] = OptionName(LookupOrder[n])
                   /\ last.err[6] = Carried(LookupOrder[n]).typ
        /\ Mistyped = {} => Succeeded

C5_Witness ==
    /\ Created /\ last.recv # 0 /\ WasSet(identStdin)
    /\ Cardinality(Mistyped) >= 2
    /\ last.cmd = NilCmd /\ last.err # NoErr /\ last.err[2] = "Dir"

\* C6: after Create or Run on an rcCtx, every option visible through that
\* context is still what the calls before had made it; and a Create that
\* follows a successful Create on the same context succeeds with a different
\* handle whose Stdout, Stderr, Stdin, Dir and Env are the same.
C6_CreateKeepsContext ==
    /\ (last.op \in {"Create", "Run"} /\ last.recv # 0) =>
          /\ heap[last.recv].alloc
          /\ heap[last.recv].ctx.base = last.base
          /\ \A k \in Keys : Value(heap[last.recv].ctx, k) = Carried(k)
    /\ (Created /\ last.prev.id # 0) =>
          /\ Succeeded
          /\ last.cmd.id # last.prev.id
          /\ \A k \in Looked : HandleField(last.cmd, k) = HandleField(last.prev, k)

C6_Witness ==
    /\ Created /\ last.recv # 0 /\ last.prev.id # 0 /\ last.cmd.id # 0
    /\ \E k \in Looked : WasSet(k) /\ SetValue(k) # NilIface

\* C7: after setters of distinct kinds in any order, Create on an rcCtx over
\* a base that carries no options gives a handle in which every option set
\* (to a value other than nil) has its set value and every option not set has
\* its default; the handle depends on what was set, not on the order.
C7_UnionOfOptions ==
    (Created /\ last.recv # 0 /\ Plain(last.base)) =>
        /\ Succeeded
        /\ \A k \in Keys :
             /\ (WasSet(k) /\ SetValue(k) # NilIface) => HandleField(last.cmd, k) = SetValue(k)
             /\ ~WasSet(k) => HandleField(last.cmd, k) = Default(k)

\* C9: for every option kind, the value in the handle of a successful Create
\* is the one the latest setter call of that kind gave (nil apart).
C9_LatestWins ==
    (Created /\ last.recv # 0 /\ last.err = NoErr) =>
        \A k \in Keys :
            (WasSet(k) /\ SetValue(k) # NilIface) => HandleField(last.cmd, k) = SetValue(k)

\* C10: a With* call returns its receiver, so that the variable assigned and
\* the variable called on denote one rcCtx, and a Create through either
\* variable reflects the value just set (nil apart).
C10_SameContext ==
    last.op = "With" =>
        /\ last.ret = last.recv
        /\ \A x \in VarNames :
             ref[x] = last.recv =>
                LET res == Create(heap[ref[x]].ctx, "ls", 1)
                IN (res.err = NoErr /\ SetValue(last.key) # NilIface) =>
                      HandleField(res.cmd, last.key) = SetValue(last.key)

--------------------------------------------------------------------------
(* What holds of the setters apart from WithExtraFiles *)

\* for the five kinds Create looks up, the handle of a successful Create has
\* the value of the latest setter call of the kind, a nil stream apart
LatestWinsLookedUp ==
    (Created /\ last.recv # 0 /\ last.err = NoErr) =>
        \A k \in Looked :
            (WasSet(k) /\ SetValue(k) # NilIface) => HandleField(last.cmd, k) = SetValue(k)

\* a With* call returns its receiver: every variable assigned from one
\* denotes the rcCtx it was called on
WithReturnsReceiver ==
    /\ last.op = "With" => last.ret = last.recv
    /\ \A x, y \in VarNames : (ref[x] # 0 /\ ref[y] # 0) => ref[x] = ref[y]

====
